---- MODULE Spec2Model ----
(***************************************************************************)
(* Model of GeneralizedChemicalHamiltonian (wfns/ham/generalized_chemical): *)
(* the reference and current integrals, the orbital-rotation parameters,   *)
(* and the operations assign_params, integrate_sd_sd and integrate_wfn_sd. *)
(*                                                                         *)
(* Numbers are integers.  A rotation parameter counts quarter turns        *)
(* (units of pi/2) and a parameter vector has at most one non-zero entry,  *)
(* so that the unitary matrix exp(generator) is an exact integer matrix.   *)
(* An optional argument is <<>> for None and <<v>> for the value v.        *)
(***************************************************************************)
EXTENDS Integers, Sequences, FiniteSets, TLC

\* ------------------------------------------------------------------ bounds
\* number of (generalized) orbitals K = one_int.shape[0]
NumOrbs == 6
\* largest number of electrons of a Slater determinant given to a call
MaxElec == 3

Orbs == 0..(NumOrbs - 1)

None == <<>>
Some(v) == <<v>>

\* ------------------------------------------------- sums over finite sets
\* the sum of f[x] over the x in S
RECURSIVE SumOver(_, _)
SumOver(S, f) ==
    IF S = {} THEN 0
    ELSE LET x == CHOOSE y \in S : TRUE IN f[x] + SumOver(S \ {x}, f)

Range(s) == {s[n] : n \in 1..Len(s)}

Reverse(s) == [n \in 1..Len(s) |-> s[Len(s) + 1 - n]]

\* ------------------------------------------ wfns.backend.slater (bit sets)
\* bit i of the Slater determinant sd
occ(sd, i) == (sd \div (2 ^ i)) % 2 = 1

RECURSIVE occ_scan(_, _)
occ_scan(sd, i) ==
    IF 2 ^ i > sd THEN <<>>
    ELSE (IF occ(sd, i) THEN <<i>> ELSE <<>>) \o occ_scan(sd, i + 1)

\* ascending indices of the occupied orbitals
occ_indices(sd) == occ_scan(sd, 0)

RECURSIVE vir_scan(_, _, _)
vir_scan(sd, i, norbs) ==
    IF i >= norbs THEN <<>>
    ELSE (IF occ(sd, i) THEN <<>> ELSE <<i>>) \o vir_scan(sd, i + 1, norbs)

\* ascending indices of the unoccupied orbitals below norbs
vir_indices(sd, norbs) == vir_scan(sd, 0, norbs)

RECURSIVE bit_and(_, _)
bit_and(x, y) ==
    IF x = 0 \/ y = 0 THEN 0
    ELSE (x % 2) * (y % 2) + 2 * bit_and(x \div 2, y \div 2)

\* sd1 with the bits of sd2 cleared
bit_andnot(x, y) == x - bit_and(x, y)

total_orbs(sd) == Len(occ_indices(sd))

\* orbitals occupied in both determinants, ascending
shared_orbs(sd1, sd2) == occ_indices(bit_and(sd1, sd2))

\* orbitals occupied in sd1 only and in sd2 only, each ascending
diff_orbs(sd1, sd2) ==
    << occ_indices(bit_andnot(sd1, sd2)), occ_indices(bit_andnot(sd2, sd1)) >>

\* the failure value of the determinant operations
NoSd == 0 - 1

annihilate(sd, i) == IF sd # NoSd /\ occ(sd, i) THEN sd - 2 ^ i ELSE NoSd

create(sd, a) == IF sd # NoSd /\ ~occ(sd, a) THEN sd + 2 ^ a ELSE NoSd

RECURSIVE annihilate_all(_, _)
annihilate_all(sd, is) ==
    IF is = <<>> THEN sd ELSE annihilate_all(annihilate(sd, Head(is)), Tail(is))

RECURSIVE create_all(_, _)
create_all(sd, as) ==
    IF as = <<>> THEN sd ELSE create_all(create(sd, Head(as)), Tail(as))

\* excite(sd, i1..in, a1..an): the first half is annihilated, the second created
excite(sd, indices) ==
    LET half == Len(indices) \div 2
    IN  create_all(annihilate_all(sd, SubSeq(indices, 1, half)),
                   SubSeq(indices, half + 1, Len(indices)))

\* number of occupied orbitals of sd below index i
num_below(sd, i) == Cardinality({k \in 0..(i - 1) : occ(sd, k)})

parity(n) == IF n % 2 = 0 THEN 1 ELSE 0 - 1

RECURSIVE sign_create(_, _)
sign_create(sd, cs) ==
    IF cs = <<>> THEN 1
    ELSE parity(num_below(sd, Head(cs))) * sign_create(create(sd, Head(cs)), Tail(cs))

RECURSIVE sign_annihilate(_, _, _)
sign_annihilate(sd, as, cs) ==
    IF as = <<>> THEN sign_create(sd, cs)
    ELSE parity(num_below(sd, Head(as)))
           * sign_annihilate(annihilate(sd, Head(as)), Tail(as), cs)

\* sign of applying the annihilators, then the creators, to sd
sign_excite(sd, annihilators, creators) == sign_annihilate(sd, annihilators, creators)

\* ------------------------------------------------------------- integrals
\* An array is the list of its elements in row-major order, as numpy stores it.
\* element [i, j] of a K x K array
at2(h, i, j) == h[NumOrbs * i + j + 1]

\* element [i, j, k, l] of a K x K x K x K array
at4(g, i, j, k, l) == g[NumOrbs * (NumOrbs * (NumOrbs * i + j) + k) + l + 1]

\* the K x K array with the elements f[<<i, j>>]
array2(f) ==
    [n \in 1..(NumOrbs ^ 2) |->
        f[<< (n - 1) \div NumOrbs, (n - 1) % NumOrbs >>]]

\* the K x K x K x K array with the elements f[<<i, j, k, l>>]
array4(f) ==
    [n \in 1..(NumOrbs ^ 4) |->
        f[<< (n - 1) \div (NumOrbs ^ 3), ((n - 1) \div (NumOrbs ^ 2)) % NumOrbs,
             ((n - 1) \div NumOrbs) % NumOrbs, (n - 1) % NumOrbs >>]]

\* one_int = arange(1, K^2 + 1).reshape(K, K)
OneIntInput == [n \in 1..(NumOrbs ^ 2) |-> n]

\* two_int = arange(1, K^4 + 1).reshape(K, K, K, K)
TwoIntInput == [n \in 1..(NumOrbs ^ 4) |-> n]

\* nuclear-nuclear repulsion given to the constructor (None gives 0.0)
EnergyInput == 0

\* ---------------------------------------------------- orbital rotation
\* num_params = K (K - 1) / 2
num_params == (NumOrbs * (NumOrbs - 1)) \div 2

\* position (from 1) of the pair row < col in the row-major upper triangle
triu_index(row, col) ==
    row * NumOrbs - ((row * (row + 1)) \div 2) + (col - row)

\* the antisymmetric generator whose upper triangle holds the parameters
antiherm(v) ==
    [row \in Orbs |-> [col \in Orbs |->
        IF row < col THEN v[triu_index(row, col)]
        ELSE IF col < row THEN 0 - v[triu_index(col, row)]
        ELSE 0]]

\* cosine and sine of t quarter turns
cos4(t) == <<1, 0, 0 - 1, 0>>[(t % 4) + 1]
sin4(t) == <<0, 1, 0, 0 - 1>>[(t % 4) + 1]

\* exp of a generator with at most one non-zero entry above the diagonal:
\* the rotation of the plane (r, c) by that entry, the identity elsewhere
expm(G) ==
    LET planes == {rc \in Orbs \X Orbs : rc[1] < rc[2] /\ G[rc[1]][rc[2]] # 0}
    IN  IF planes = {} THEN [i \in Orbs |-> [j \in Orbs |-> IF i = j THEN 1 ELSE 0]]
        ELSE LET rc == CHOOSE x \in planes : TRUE
                 r == rc[1]
                 c == rc[2]
                 t == G[r][c]
             IN  [i \in Orbs |-> [j \in Orbs |->
                    IF i = r /\ j = r THEN cos4(t)
                    ELSE IF i = r /\ j = c THEN sin4(t)
                    ELSE IF i = c /\ j = r THEN 0 - sin4(t)
                    ELSE IF i = c /\ j = c THEN cos4(t)
                    ELSE IF i = j THEN 1 ELSE 0]]

\* math_tools.unitary_matrix: the unitary of the anti-Hermitian elements
unitary_matrix(v) == expm(antiherm(v))

\* rows with a non-zero entry in column a of the matrix
nonzero_rows(U, a) == {i \in Orbs : U[i][a] # 0}

\* one_int' = U^T one_int U
rotate_one_int(h, U) ==
    array2([ab \in Orbs \X Orbs |->
        SumOver(nonzero_rows(U, ab[1]), [i \in Orbs |->
            U[i][ab[1]] * SumOver(nonzero_rows(U, ab[2]), [j \in Orbs |->
                at2(h, i, j) * U[j][ab[2]]])])])

\* two_int' = two_int with U contracted on each of its four indices
rotate_two_int(g, U) ==
    array4([abcd \in Orbs \X Orbs \X Orbs \X Orbs |->
        SumOver(nonzero_rows(U, abcd[1]), [i \in Orbs |->
            U[i][abcd[1]] * SumOver(nonzero_rows(U, abcd[2]), [j \in Orbs |->
                U[j][abcd[2]] * SumOver(nonzero_rows(U, abcd[3]), [k \in Orbs |->
                    U[k][abcd[3]] * SumOver(nonzero_rows(U, abcd[4]), [l \in Orbs |->
                        U[l][abcd[4]] * at4(g, i, j, k, l)])])])])])

\* ------------------------------------------------------- results of a call
Returned(val) == [kind |-> "return", val |-> val]

Raised(error) == [kind |-> error, val |-> <<>>]

\* ------------------------------------------------------- integrate_sd_sd
\* positions k < m of a list of n entries (the strict upper triangle, k=1)
triu_pairs(n) == {km \in (1..n) \X (1..n) : km[1] < km[2]}

\* same_sd_terms with the diagonal kept in the triangle (np.triu with k=0)
same_sd_terms_diag(h, g, shared) ==
    LET n == Len(shared)
        pairs == {km \in (1..n) \X (1..n) : km[1] <= km[2]}
    IN  << SumOver(1..n, [k \in 1..n |-> at2(h, shared[k], shared[k])]),
           SumOver(pairs, [km \in pairs |->
               at4(g, shared[km[1]], shared[km[2]], shared[km[1]], shared[km[2]])]),
           0 - SumOver(pairs, [km \in pairs |->
               at4(g, shared[km[1]], shared[km[2]], shared[km[2]], shared[km[1]])]) >>

\* the two determinants are the same
same_sd_terms(h, g, shared) ==
    LET n == Len(shared)
    IN  << SumOver(1..n, [k \in 1..n |-> at2(h, shared[k], shared[k])]),
           SumOver(triu_pairs(n), [km \in triu_pairs(n) |->
               at4(g, shared[km[1]], shared[km[2]], shared[km[1]], shared[km[2]])]),
           0 - SumOver(triu_pairs(n), [km \in triu_pairs(n) |->
               at4(g, shared[km[1]], shared[km[2]], shared[km[2]], shared[km[1]])]) >>

\* single_terms with the first shared orbital left out of the sums
single_terms_skip(h, g, shared, a, b) ==
    LET n == Len(shared)
    IN  << at2(h, a, b),
           SumOver(2..n, [k \in 2..n |-> at4(g, shared[k], a, shared[k], b)]),
           0 - SumOver(2..n, [k \in 2..n |-> at4(g, shared[k], a, b, shared[k])]) >>

\* the two determinants differ by the single excitation a -> b
single_terms(h, g, shared, a, b) ==
    LET n == Len(shared)
    IN  << at2(h, a, b),
           SumOver(1..n, [k \in 1..n |-> at4(g, shared[k], a, shared[k], b)]),
           0 - SumOver(1..n, [k \in 1..n |-> at4(g, shared[k], a, b, shared[k])]) >>

\* double_terms with the last two indices of both terms exchanged
double_terms_swapped(g, a, b, c, d) ==
    << 0, at4(g, a, b, d, c), 0 - at4(g, a, b, c, d) >>

\* the two determinants differ by the double excitation a, b -> c, d
double_terms(g, a, b, c, d) == << 0, at4(g, a, b, c, d), 0 - at4(g, a, b, d, c) >>

\* no_coupling with the excitation order compared with 3
no_coupling_late(diff_sd1, diff_sd2) ==
    \/ Len(diff_sd1) # Len(diff_sd2)
    \/ Len(diff_sd1) > 3

\* different numbers of electrons, or more than a double excitation
no_coupling(diff_sd1, diff_sd2) ==
    \/ Len(diff_sd1) # Len(diff_sd2)
    \/ Len(diff_sd1) > 2

\* sd_sd_terms with the sign always derived from the determinants
sd_sd_terms_rederived(h, g, sd1, sd2, sign) ==
    LET shared_indices == shared_orbs(sd1, sd2)
        diff == diff_orbs(sd1, sd2)
        diff_sd1 == diff[1]
        diff_sd2 == diff[2]
        diff_order == Len(diff_sd1)
    IN  IF no_coupling(diff_sd1, diff_sd2) THEN Returned(<<0, 0, 0>>)
        ELSE IF sign # None /\ sign[1] \notin {1, 0 - 1} THEN Raised("ValueError")
        ELSE
          LET s == sign_excite(sd1, diff_sd1, Reverse(diff_sd2))
              t == IF diff_order = 0
                   THEN same_sd_terms(h, g, shared_indices)
                   ELSE IF diff_order = 1
                   THEN single_terms(h, g, shared_indices, diff_sd1[1], diff_sd2[1])
                   ELSE double_terms(g, diff_sd1[1], diff_sd1[2],
                                     diff_sd2[1], diff_sd2[2])
          IN  Returned(<< s * t[1], s * t[2], s * t[3] >>)

\* the part of integrate_sd_sd after the check of deriv
sd_sd_terms(h, g, sd1, sd2, sign) ==
    LET shared_indices == shared_orbs(sd1, sd2)
        diff == diff_orbs(sd1, sd2)
        diff_sd1 == diff[1]
        diff_sd2 == diff[2]
        diff_order == Len(diff_sd1)
    IN  IF no_coupling(diff_sd1, diff_sd2) THEN Returned(<<0, 0, 0>>)
        ELSE IF sign # None /\ sign[1] \notin {1, 0 - 1} THEN Raised("ValueError")
        ELSE
          LET s == IF sign = None
                   THEN sign_excite(sd1, diff_sd1, Reverse(diff_sd2))
                   ELSE sign[1]
              t == IF diff_order = 0
                   THEN same_sd_terms(h, g, shared_indices)
                   ELSE IF diff_order = 1
                   THEN single_terms(h, g, shared_indices, diff_sd1[1], diff_sd2[1])
                   ELSE double_terms(g, diff_sd1[1], diff_sd1[2],
                                     diff_sd2[1], diff_sd2[2])
          IN  Returned(<< s * t[1], s * t[2], s * t[3] >>)

\* integrate_sd_sd without the check of deriv
integrate_sd_sd_any_deriv(h, g, sd1, sd2, sign, deriv) ==
    sd_sd_terms(h, g, sd1, sd2, sign)

integrate_sd_sd(h, g, sd1, sd2, sign, deriv) ==
    IF deriv # None THEN Raised("NotImplementedError")
    ELSE sd_sd_terms(h, g, sd1, sd2, sign)

\* ------------------------------------------------------ the wavefunction
\* TestWavefunction.get_overlap of the tests (it ignores deriv)
mock_overlap(sd) ==
    IF sd = 5 THEN 1 ELSE IF sd = 10 THEN 2 ELSE IF sd = 12 THEN 3 ELSE 0

\* the overlap callback of wavefunction wfn
get_overlap(wfn, sd, deriv) ==
    IF wfn = "mock" THEN mock_overlap(sd)
    ELSE IF deriv = None THEN sd + 1 ELSE 2 * sd + 3 + deriv[1]

\* ------------------------------------------------------ integrate_wfn_sd
\* slice_from starting one element late
slice_from_late(s, n) == SubSeq(s, n + 2, Len(s))

\* s[n:] of a list s, n counted from 0
slice_from(s, n) == SubSeq(s, n + 1, Len(s))

\* adds f(sd_m) <sd|H|sd_m> to the sums; an error of integrate_sd_sd ends the call
update_integrals(acc, ctx, sd_m) ==
    LET coeff == get_overlap(ctx.wfn, sd_m, ctx.wfn_deriv)
        sd_energy == integrate_sd_sd(ctx.one_int, ctx.two_int, ctx.sd, sd_m,
                                     None, ctx.ham_deriv)
        asked == [acc EXCEPT !.queried = Append(@, sd_m),
                             !.evaluated = Append(@, sd_m)]
    IN  IF sd_energy.kind # "return" THEN [asked EXCEPT !.error = sd_energy.kind]
        ELSE [asked EXCEPT !.one_electron = @ + coeff * sd_energy.val[1],
                           !.coulomb = @ + coeff * sd_energy.val[2],
                           !.exchange = @ + coeff * sd_energy.val[3]]

excited(acc) == [acc EXCEPT !.nexcite = @ + 1]

\* for b in vir_indices[counter_a+1:]
RECURSIVE loop_b(_, _, _, _, _, _)
loop_b(acc, ctx, i, j, a, bs) ==
    IF bs = <<>> \/ acc.error # "" THEN acc
    ELSE loop_b(update_integrals(excited(acc), ctx,
                                 excite(ctx.sd, <<i, j, Head(bs), a>>)),
                ctx, i, j, a, Tail(bs))

\* for j in occ_indices[counter_i+1:]
RECURSIVE loop_j(_, _, _, _, _, _)
loop_j(acc, ctx, i, js, a, bs) ==
    IF js = <<>> \/ acc.error # "" THEN acc
    ELSE loop_j(loop_b(acc, ctx, i, Head(js), a, bs), ctx, i, Tail(js), a, bs)

\* for counter_a, a in enumerate(vir_indices)
RECURSIVE loop_a(_, _, _, _, _, _)
loop_a(acc, ctx, i, js, vir, counter_a) ==
    IF counter_a >= Len(vir) \/ acc.error # "" THEN acc
    ELSE LET a == vir[counter_a + 1]
             single == update_integrals(excited(acc), ctx, excite(ctx.sd, <<i, a>>))
         IN  loop_a(loop_j(single, ctx, i, js, a, slice_from(vir, counter_a + 1)),
                    ctx, i, js, vir, counter_a + 1)

\* for counter_i, i in enumerate(occ_indices)
RECURSIVE loop_i(_, _, _, _, _)
loop_i(acc, ctx, occs, vir, counter_i) ==
    IF counter_i >= Len(occs) \/ acc.error # "" THEN acc
    ELSE loop_i(loop_a(acc, ctx, occs[counter_i + 1],
                       slice_from(occs, counter_i + 1), vir, 0),
                ctx, occs, vir, counter_i + 1)

\* the part of integrate_wfn_sd after the check of the two derivatives
wfn_sd_terms(h, g, wfn, sd, wfn_deriv, ham_deriv) ==
    LET ctx == [one_int |-> h, two_int |-> g, wfn |-> wfn, sd |-> sd,
                wfn_deriv |-> wfn_deriv, ham_deriv |-> ham_deriv]
        occs == occ_indices(sd)
        vir == vir_indices(sd, NumOrbs)
        zero == [one_electron |-> 0, coulomb |-> 0, exchange |-> 0, error |-> "",
                 queried |-> <<>>, evaluated |-> <<>>, nexcite |-> 0]
    IN  loop_i(update_integrals(zero, ctx, sd), ctx, occs, vir, 0)

\* integrate_wfn_sd without the check of the two derivatives
integrate_wfn_sd_unchecked(h, g, wfn, sd, wfn_deriv, ham_deriv) ==
    wfn_sd_terms(h, g, wfn, sd, wfn_deriv, ham_deriv)

integrate_wfn_sd(h, g, wfn, sd, wfn_deriv, ham_deriv) ==
    IF wfn_deriv # None /\ ham_deriv # None
    THEN [one_electron |-> 0, coulomb |-> 0, exchange |-> 0, error |-> "ValueError",
          queried |-> <<>>, evaluated |-> <<>>, nexcite |-> 0]
    ELSE wfn_sd_terms(h, g, wfn, sd, wfn_deriv, ham_deriv)

\* --------------------------------------------------------- assign_params
zero_params == [p \in 1..num_params |-> 0]

\* An array argument <<data>> is a one-dimensional numpy array of the elements
\* data; <<data, shape>> is a numpy array of that shape; <<data, shape, "list">>
\* is a list, no numpy array.
is_ndarray(p) == Len(p) < 3

ndim(p) == IF Len(p) = 1 THEN 1 ELSE Len(p[2])

size(p) == Len(p[1])

\* valid_params without the check of the number of dimensions
valid_params_any_ndim(p) == is_ndarray(p) /\ size(p) = num_params

\* a one-dimensional numpy array of num_params elements
valid_params(p) == is_ndarray(p) /\ ndim(p) = 1 /\ size(p) = num_params

\* revert_integrals that leaves the current integrals as they are
revert_integrals_never(ham) == ham

\* revert_integrals that is skipped when the parameters are all zero
revert_integrals_unless_zero(ham) ==
    IF ham.params = zero_params THEN ham
    ELSE [ham EXCEPT !.one_int = ham.ref_one_int, !.two_int = ham.ref_two_int]

\* assign_integrals(copy(_ref_one_int), copy(_ref_two_int))
revert_integrals(ham) ==
    [ham EXCEPT !.one_int = ham.ref_one_int, !.two_int = ham.ref_two_int]

\* orb_rotate_matrix: the current integrals transformed by the matrix
orb_rotate_matrix(ham, U) ==
    [ham EXCEPT !.one_int = rotate_one_int(@, U), !.two_int = rotate_two_int(@, U)]

\* set_ref_ints: the current integrals copied as the reference
set_ref_ints(ham) ==
    [ham EXCEPT !.ref_one_int = ham.one_int, !.ref_two_int = ham.two_int]

assign_params(ham, arg) ==
    LET p == IF arg = None THEN Some(zero_params) ELSE arg
        v == p[1]
    IN  IF ~valid_params(p)
        THEN [error |-> "ValueError", named |-> num_params, ham |-> ham]
        ELSE [error |-> "", named |-> 0,
              ham |-> orb_rotate_matrix(revert_integrals([ham EXCEPT !.params = v]),
                                        unitary_matrix(v))]

\* __init__(one_int, two_int, energy_nuc_nuc, params)
construct(h, g, e, arg) ==
    assign_params(set_ref_ints([one_int |-> h, two_int |-> g, energy_nuc_nuc |-> e,
                                ref_one_int |-> h, ref_two_int |-> g,
                                params |-> zero_params]), arg)

\* ----------------------------------------------------------------- inputs
\* Slater determinants of at most MaxElec electrons in NumOrbs orbitals
SDs == {sd \in 0..(2 ^ NumOrbs - 1) : total_orbs(sd) <= MaxElec}

SignArgs == {None, Some(1), Some(0 - 1), Some(0)}

DerivArgs == {None, Some(0)}

Wfns == {"mock", "dense"}

\* rotations <<p, t>>: parameter p is t quarter turns, the others are zero
RotInputs == {<<1, 1>>, <<num_params, 2>>}

rot_params(pt) == [p \in 1..num_params |-> IF p = pt[1] THEN pt[2] ELSE 0]

ParamVectors == {zero_params} \cup {rot_params(pt) : pt \in RotInputs}

\* arguments that are no one-dimensional array of num_params elements: too
\* short, too long, empty, two-dimensional with num_params elements, a scalar
\* array, and lists
BadParamArgs ==
    { Some([p \in 1..(num_params - 1) |-> 0]),
      Some([p \in 1..(num_params + 1) |-> IF p = 1 THEN 1 ELSE 0]),
      Some(<<>>),
      << rot_params(<<1, 1>>), <<1, num_params>> >>,
      << <<1>>, <<>> >>,
      << rot_params(<<1, 1>>), <<num_params>>, "list" >>,
      << <<1, 0>>, <<2>>, "list" >> }

\* None, the vectors above, and the arguments that are rejected
ParamArgs ==
    {None} \cup {Some(v) : v \in ParamVectors} \cup BadParamArgs

\* ------------------------------------------------------------------ state
\* assigning and evals are the positions of the calls that run concurrently
\* (see the concurrent specification below); a sequential caller leaves them
\* idle.
VARIABLES one_int, two_int, ref_one_int, ref_two_int, params, energy_nuc_nuc,
          call, ret, trace, assigning, evals

ham_vars == <<one_int, two_int, ref_one_int, ref_two_int, params, energy_nuc_nuc>>

vars == <<one_int, two_int, ref_one_int, ref_two_int, params, energy_nuc_nuc,
          call, ret, trace, assigning, evals>>

conc_vars == <<assigning, evals>>

\* the threads that evaluate
Threads == {1, 2}

NoAssign == [pc |-> "idle"]

NoEval == [pc |-> "idle"]

Ham == [one_int |-> one_int, two_int |-> two_int, ref_one_int |-> ref_one_int,
        ref_two_int |-> ref_two_int, params |-> params,
        energy_nuc_nuc |-> energy_nuc_nuc]

NoCall == [op |-> "none"]

NoRet == [kind |-> "none", val |-> <<>>]

NoTrace == [queried |-> <<>>, evaluated |-> <<>>, nexcite |-> 0]

Init ==
    \E arg \in {None} \cup {Some(v) : v \in ParamVectors} :
        LET new == construct(OneIntInput, TwoIntInput, EnergyInput, arg).ham
        IN  /\ one_int = new.one_int
            /\ two_int = new.two_int
            /\ ref_one_int = new.ref_one_int
            /\ ref_two_int = new.ref_two_int
            /\ params = new.params
            /\ energy_nuc_nuc = new.energy_nuc_nuc
            /\ call = NoCall
            /\ ret = NoRet
            /\ trace = NoTrace
            /\ assigning = NoAssign
            /\ evals = [t \in Threads |-> NoEval]

AssignParams(arg) ==
    /\ call.op = "none"
    /\ LET r == assign_params(Ham, arg)
       IN  /\ one_int' = r.ham.one_int
           /\ two_int' = r.ham.two_int
           /\ ref_one_int' = r.ham.ref_one_int
           /\ ref_two_int' = r.ham.ref_two_int
           /\ params' = r.ham.params
           /\ energy_nuc_nuc' = r.ham.energy_nuc_nuc
           /\ ret' = IF r.error = "" THEN Returned(<<>>)
                     ELSE [kind |-> r.error, val |-> <<r.named>>]
    /\ call' = [op |-> "assign_params", arg |-> arg, old_params |-> params]
    /\ trace' = NoTrace
    /\ UNCHANGED conc_vars

\* IntegrateSdSd that leaves the reference integrals as the current ones
IntegrateSdSd_on_reference(sd1, sd2, sign, deriv) ==
    /\ call.op = "none"
    /\ call' = [op |-> "integrate_sd_sd", sd1 |-> sd1, sd2 |-> sd2,
                sign |-> sign, deriv |-> deriv]
    /\ ret' = integrate_sd_sd(ref_one_int, ref_two_int, sd1, sd2, sign, deriv)
    /\ trace' = NoTrace
    /\ one_int' = ref_one_int
    /\ two_int' = ref_two_int
    /\ UNCHANGED <<ref_one_int, ref_two_int, params, energy_nuc_nuc>>
    /\ UNCHANGED conc_vars

IntegrateSdSd(sd1, sd2, sign, deriv) ==
    /\ call.op = "none"
    /\ call' = [op |-> "integrate_sd_sd", sd1 |-> sd1, sd2 |-> sd2,
                sign |-> sign, deriv |-> deriv]
    /\ ret' = integrate_sd_sd(one_int, two_int, sd1, sd2, sign, deriv)
    /\ trace' = NoTrace
    /\ UNCHANGED ham_vars
    /\ UNCHANGED conc_vars

IntegrateWfnSd(wfn, sd, wfn_deriv, ham_deriv) ==
    /\ call.op = "none"
    /\ call' = [op |-> "integrate_wfn_sd", wfn |-> wfn, sd |-> sd,
                wfn_deriv |-> wfn_deriv, ham_deriv |-> ham_deriv]
    /\ LET r == integrate_wfn_sd(one_int, two_int, wfn, sd, wfn_deriv, ham_deriv)
       IN  /\ ret' = IF r.error = ""
                     THEN Returned(<<r.one_electron, r.coulomb, r.exchange>>)
                     ELSE Raised(r.error)
           /\ trace' = [queried |-> r.queried, evaluated |-> r.evaluated,
                        nexcite |-> r.nexcite]
    /\ UNCHANGED ham_vars
    /\ UNCHANGED conc_vars

\* the caller takes the result; the next call can start
Consume ==
    /\ call.op # "none"
    /\ call' = NoCall
    /\ ret' = NoRet
    /\ trace' = NoTrace
    /\ UNCHANGED ham_vars
    /\ UNCHANGED conc_vars

Next ==
    \/ /\ call.op = "none"
       /\ \E arg \in ParamArgs : AssignParams(arg)
    \/ /\ call.op = "none"
       /\ \E sd1 \in SDs, sd2 \in SDs, sign \in SignArgs, deriv \in DerivArgs :
             IntegrateSdSd(sd1, sd2, sign, deriv)
    \/ /\ call.op = "none"
       /\ \E wfn \in Wfns, sd \in SDs, wfn_deriv \in DerivArgs, ham_deriv \in DerivArgs :
             IntegrateWfnSd(wfn, sd, wfn_deriv, ham_deriv)
    \/ Consume

Spec == Init /\ [][Next]_vars

\* ------------------------------------------- concurrent calls, step by step
\* One thread runs assign_params statement by statement while the threads of
\* Threads run integrate_sd_sd, each reading self.one_int and self.two_int
\* where its code reads them.

\* the determinants the threads evaluate: a single excitation, the same
\* determinant, a double excitation
EvalPairs == {<<1, 16>>, <<3, 3>>, <<3, 12>>}

\* the input integrals rotated by each parameter vector, computed once
RotatedInput ==
    [v \in ParamVectors |->
        orb_rotate_matrix([one_int |-> OneIntInput, two_int |-> TwoIntInput],
                          unitary_matrix(v))]

\* orb_rotate_matrix(ham, unitary_matrix(v)), taken from RotatedInput when the
\* integrals of ham are the input integrals
rotate_by_params(ham, v) ==
    IF ham.one_int = OneIntInput /\ ham.two_int = TwoIntInput /\ v \in ParamVectors
    THEN [ham EXCEPT !.one_int = RotatedInput[v].one_int,
                     !.two_int = RotatedInput[v].two_int]
    ELSE orb_rotate_matrix(ham, unitary_matrix(v))

\* a call in progress has seen a step of assign_params
Interrupted ==
    [t \in Threads |->
        IF evals[t].pc \in {"called", "one", "coulomb"}
        THEN [evals[t] EXCEPT !.clean = FALSE]
        ELSE evals[t]]

\* assign_params up to self.params = params
AssignStore(arg) ==
    /\ assigning.pc = "idle"
    /\ LET p == IF arg = None THEN Some(zero_params) ELSE arg
       IN  /\ valid_params(p)
           /\ params' = p[1]
    /\ assigning' = [pc |-> "stored", old_params |-> params]
    /\ evals' = Interrupted
    /\ UNCHANGED <<one_int, two_int, ref_one_int, ref_two_int, energy_nuc_nuc,
                   call, ret, trace>>

\* self.assign_integrals(np.copy(self._ref_one_int), np.copy(self._ref_two_int))
AssignRevert ==
    /\ assigning.pc = "stored"
    /\ LET h == revert_integrals(Ham)
       IN  /\ one_int' = h.one_int
           /\ two_int' = h.two_int
    /\ assigning' = [assigning EXCEPT !.pc = "reverted"]
    /\ evals' = Interrupted
    /\ UNCHANGED <<ref_one_int, ref_two_int, params, energy_nuc_nuc,
                   call, ret, trace>>

\* unitary = ...; self.orb_rotate_matrix(unitary); return
AssignRotate ==
    /\ assigning.pc = "reverted"
    /\ LET h == rotate_by_params(Ham, params)
       IN  /\ one_int' = h.one_int
           /\ two_int' = h.two_int
    /\ assigning' = NoAssign
    /\ evals' = Interrupted
    /\ UNCHANGED <<ref_one_int, ref_two_int, params, energy_nuc_nuc,
                   call, ret, trace>>

\* term n of integrate_sd_sd(sd1, sd2) on the integrals as they are now
term_now(n, sd1, sd2) ==
    integrate_sd_sd(one_int, two_int, sd1, sd2, None, None).val[n]

\* integrate_sd_sd up to one_electron, coulomb, exchange = 0.0, 0.0, 0.0; seq is
\* the triple the call returns when it runs alone, now, and clean says that no
\* assign_params is in progress
EvalCall(t, sd1, sd2) ==
    /\ evals[t].pc = "idle"
    /\ evals' = [evals EXCEPT ![t] =
                    [pc |-> "called", sd1 |-> sd1, sd2 |-> sd2, val |-> <<0, 0, 0>>,
                     seq |-> integrate_sd_sd(one_int, two_int, sd1, sd2,
                                             None, None).val,
                     clean |-> assigning.pc = "idle"]]
    /\ UNCHANGED <<ham_vars, call, ret, trace, assigning>>

\* the statement that reads self.one_int
EvalOneElectron(t) ==
    /\ evals[t].pc = "called"
    /\ evals' = [evals EXCEPT ![t].pc = "one",
                              ![t].val[1] = term_now(1, evals[t].sd1, evals[t].sd2)]
    /\ UNCHANGED <<ham_vars, call, ret, trace, assigning>>

\* the statement that reads self.two_int for the coulomb term
EvalCoulomb(t) ==
    /\ evals[t].pc = "one"
    /\ evals' = [evals EXCEPT ![t].pc = "coulomb",
                              ![t].val[2] = term_now(2, evals[t].sd1, evals[t].sd2)]
    /\ UNCHANGED <<ham_vars, call, ret, trace, assigning>>

\* EvalExchange reading the reference integrals
EvalExchange_on_reference(t) ==
    /\ evals[t].pc = "coulomb"
    /\ evals' = [evals EXCEPT ![t].pc = "done",
                              ![t].val[3] =
                                  integrate_sd_sd(ref_one_int, ref_two_int,
                                                  evals[t].sd1, evals[t].sd2,
                                                  None, None).val[3]]
    /\ UNCHANGED <<ham_vars, call, ret, trace, assigning>>

\* the statement that reads self.two_int for the exchange term; the call is
\* then ready to return sign * the three terms
EvalExchange(t) ==
    /\ evals[t].pc = "coulomb"
    /\ evals' = [evals EXCEPT ![t].pc = "done",
                              ![t].val[3] = term_now(3, evals[t].sd1, evals[t].sd2)]
    /\ UNCHANGED <<ham_vars, call, ret, trace, assigning>>

\* the caller takes the triple
EvalReturn(t) ==
    /\ evals[t].pc = "done"
    /\ evals' = [evals EXCEPT ![t] = NoEval]
    /\ UNCHANGED <<ham_vars, call, ret, trace, assigning>>

NextConc ==
    \/ \E arg \in {None} \cup {Some(v) : v \in ParamVectors} : AssignStore(arg)
    \/ AssignRevert
    \/ AssignRotate
    \/ \E t \in Threads, pair \in EvalPairs : EvalCall(t, pair[1], pair[2])
    \/ \E t \in Threads : EvalOneElectron(t)
    \/ \E t \in Threads : EvalCoulomb(t)
    \/ \E t \in Threads : EvalExchange(t)
    \/ \E t \in Threads : EvalReturn(t)

SpecConc == Init /\ [][NextConc]_vars

\* ------------------------------------------------------------ properties
\* the occupied orbitals of a determinant, as a set
OccSet(sd) == {i \in Orbs : occ(sd, i)}

\* the orbitals occupied in sd1 and not in sd2
OnlyIn(sd1, sd2) == OccSet(sd1) \ OccSet(sd2)

\* the orbitals occupied in both determinants
InBoth(sd1, sd2) == OccSet(sd1) \cap OccSet(sd2)

Min(S) == CHOOSE x \in S : \A y \in S : x <= y

Max(S) == CHOOSE x \in S : \A y \in S : y <= x

Times(s, t) == << s * t[1], s * t[2], s * t[3] >>

\* the last call is integrate_sd_sd with deriv=None and sign None, 1 or -1
SdSdCall ==
    /\ call.op = "integrate_sd_sd"
    /\ call.deriv = None
    /\ call.sign \in {None, Some(1), Some(0 - 1)}

\* the sign that multiplies the result of the last integrate_sd_sd call
CallSign ==
    IF call.sign = None
    THEN sign_excite(call.sd1, diff_orbs(call.sd1, call.sd2)[1],
                     Reverse(diff_orbs(call.sd1, call.sd2)[2]))
    ELSE call.sign[1]

\* C1: integrate_sd_sd with deriv=None and sign None, 1 or -1 returns (0, 0, 0),
\* and raises nothing, when the determinants have different numbers of
\* electrons or differ by more than a double excitation.
C1_NoCouplingReturnsZero ==
    (/\ SdSdCall
     /\ \/ Cardinality(OnlyIn(call.sd1, call.sd2)) # Cardinality(OnlyIn(call.sd2, call.sd1))
        \/ (/\ Cardinality(OnlyIn(call.sd1, call.sd2)) > 2
            /\ Cardinality(OnlyIn(call.sd2, call.sd1)) > 2))
    => ret = Returned(<<0, 0, 0>>)

\* a triple excitation with the sign given, on rotated integrals
C1_Witness ==
    /\ SdSdCall
    /\ call.sign = Some(0 - 1)
    /\ Cardinality(OnlyIn(call.sd1, call.sd2)) = 3
    /\ Cardinality(OnlyIn(call.sd2, call.sd1)) = 3
    /\ params # zero_params
    /\ ret = Returned(<<0, 0, 0>>)

\* C2: for identical determinants integrate_sd_sd (deriv=None) returns sign
\* times (sum of one_int[i,i], sum over i<j of two_int[i,j,i,j], minus the sum
\* over i<j of two_int[i,j,j,i]), i and j occupied; each pair counted once and
\* no i = j term.
C2_SameDeterminant ==
    (SdSdCall /\ call.sd1 = call.sd2)
    => LET O == OccSet(call.sd1)
           P == {ij \in O \X O : ij[1] < ij[2]}
           s == IF call.sign = None THEN 1 ELSE call.sign[1]
       IN  ret = Returned(Times(s,
               << SumOver(O, [i \in O |-> at2(one_int, i, i)]),
                  SumOver(P, [ij \in P |-> at4(two_int, ij[1], ij[2], ij[1], ij[2])]),
                  0 - SumOver(P, [ij \in P |-> at4(two_int, ij[1], ij[2], ij[2], ij[1])])
               >>))

\* three electrons, the sign given as -1, on rotated integrals
C2_Witness ==
    /\ SdSdCall
    /\ call.sd1 = call.sd2
    /\ Cardinality(OccSet(call.sd1)) = 3
    /\ call.sign = Some(0 - 1)
    /\ params # zero_params
    /\ ret.kind = "return"
    /\ ret.val[2] # 0

\* C3: for determinants that differ by the single excitation a -> b
\* integrate_sd_sd (deriv=None) returns sign times (one_int[a,b], sum over the
\* shared orbitals i of two_int[i,a,i,b], minus the sum over the shared
\* orbitals i of two_int[i,a,b,i]).
C3_SingleExcitation ==
    (/\ SdSdCall
     /\ Cardinality(OnlyIn(call.sd1, call.sd2)) = 1
     /\ Cardinality(OnlyIn(call.sd2, call.sd1)) = 1)
    => LET a == Min(OnlyIn(call.sd1, call.sd2))
           b == Min(OnlyIn(call.sd2, call.sd1))
           S == InBoth(call.sd1, call.sd2)
       IN  ret = Returned(Times(CallSign,
               << at2(one_int, a, b),
                  SumOver(S, [i \in S |-> at4(two_int, i, a, i, b)]),
                  0 - SumOver(S, [i \in S |-> at4(two_int, i, a, b, i)]) >>))

\* a single excitation with two shared orbitals and the sign computed
C3_Witness ==
    /\ SdSdCall
    /\ call.sign = None
    /\ Cardinality(OnlyIn(call.sd1, call.sd2)) = 1
    /\ Cardinality(OnlyIn(call.sd2, call.sd1)) = 1
    /\ Cardinality(InBoth(call.sd1, call.sd2)) = 2
    /\ params # zero_params
    /\ ret.kind = "return"
    /\ ret.val[2] # 0

\* C4: for determinants that differ by the double excitation a < b -> c < d
\* integrate_sd_sd (deriv=None) returns sign times
\* (0, two_int[a,b,c,d], -two_int[a,b,d,c]); the shared orbitals add nothing.
C4_DoubleExcitation ==
    (/\ SdSdCall
     /\ Cardinality(OnlyIn(call.sd1, call.sd2)) = 2
     /\ Cardinality(OnlyIn(call.sd2, call.sd1)) = 2)
    => LET a == Min(OnlyIn(call.sd1, call.sd2))
           b == Max(OnlyIn(call.sd1, call.sd2))
           c == Min(OnlyIn(call.sd2, call.sd1))
           d == Max(OnlyIn(call.sd2, call.sd1))
       IN  ret = Returned(Times(CallSign,
               << 0, at4(two_int, a, b, c, d), 0 - at4(two_int, a, b, d, c) >>))

\* a double excitation beside a shared orbital, the sign computed as -1
C4_Witness ==
    /\ SdSdCall
    /\ call.sign = None
    /\ Cardinality(OnlyIn(call.sd1, call.sd2)) = 2
    /\ Cardinality(OnlyIn(call.sd2, call.sd1)) = 2
    /\ Cardinality(InBoth(call.sd1, call.sd2)) = 1
    /\ CallSign = 0 - 1
    /\ ret.kind = "return"
    /\ ret.val[2] # 0

\* the last call is integrate_wfn_sd
WfnSdCall == call.op = "integrate_wfn_sd"

\* the determinants with the electrons of sd that differ from it by no more
\* than two orbitals: sd, its single and its double excitations
Connected(sd) ==
    {m \in 0..(2 ^ NumOrbs - 1) :
        /\ Cardinality(OccSet(m)) = Cardinality(OccSet(sd))
        /\ Cardinality(OnlyIn(sd, m)) <= 2}

\* the number of pairs among n things
Choose2(n) == (n * (n - 1)) \div 2

\* 1 + n_occ n_vir + C(n_occ, 2) C(n_vir, 2)
NumConnected(sd) ==
    LET n_occ == Cardinality(OccSet(sd))
        n_vir == NumOrbs - n_occ
    IN  1 + n_occ * n_vir + Choose2(n_occ) * Choose2(n_vir)

\* term n of the sum over the connected determinants m of
\* get_overlap(m, deriv=wfn_deriv) * integrate_sd_sd(sd, m, deriv=ham_deriv)
WeightedSum(n) ==
    SumOver(Connected(call.sd), [m \in Connected(call.sd) |->
        get_overlap(call.wfn, m, call.wfn_deriv)
          * integrate_sd_sd(one_int, two_int, call.sd, m, None, call.ham_deriv).val[n]])

\* the call returned the weighted sum, and asked for the overlap of each
\* connected determinant once and of nothing else
SumOverConnected ==
    /\ ret.kind = "return"
    /\ ret.val = << WeightedSum(1), WeightedSum(2), WeightedSum(3) >>
    /\ Len(trace.queried) = NumConnected(call.sd)
    /\ Range(trace.queried) = Connected(call.sd)
    /\ trace.evaluated = trace.queried

AssignedParams == call.op = "assign_params" /\ ret.kind = "return"

\* the parameter vector of the last assign_params call
CallParams == IF call.arg = None THEN zero_params ELSE call.arg[1]

\* C6: after assign_params the current integrals are the reference integrals
\* transformed by the unitary of the parameters of that call alone, whatever
\* the parameters were before, and the reference integrals are those the
\* Hamiltonian was made from.
C6_RotatedFromReference ==
    /\ ref_one_int = OneIntInput
    /\ ref_two_int = TwoIntInput
    /\ AssignedParams
       => /\ params = CallParams
          /\ one_int = rotate_one_int(OneIntInput, unitary_matrix(CallParams))
          /\ two_int = rotate_two_int(TwoIntInput, unitary_matrix(CallParams))

\* a rotation assigned after another rotation
C6_Witness ==
    /\ AssignedParams
    /\ call.old_params # zero_params
    /\ CallParams # zero_params
    /\ one_int # OneIntInput
    /\ two_int # TwoIntInput

\* C7: assign_params(None) and assign_params(all-zero vector) leave the
\* current integrals equal to the integrals the Hamiltonian was made from and
\* the stored parameters all zero, whatever was assigned before.
C7_ZeroRestoresReference ==
    (call.op = "assign_params" /\ call.arg \in {None, Some(zero_params)})
    => /\ ret.kind = "return"
       /\ one_int = OneIntInput
       /\ two_int = TwoIntInput
       /\ params = zero_params

\* assign_params(None) after a rotation
C7_Witness ==
    /\ call.op = "assign_params"
    /\ call.arg = None
    /\ call.old_params # zero_params
    /\ two_int = TwoIntInput
    /\ params = zero_params

\* C8: integrate_wfn_sd with both wfn_deriv and ham_deriv given raises
\* ValueError before any overlap is asked for, any excitation is made or
\* integrate_sd_sd is called.
C8_BothDerivativesRejected ==
    (WfnSdCall /\ call.wfn_deriv # None /\ call.ham_deriv # None)
    => /\ ret = Raised("ValueError")
       /\ trace = NoTrace

\* both derivatives given for a determinant of three electrons
C8_Witness ==
    /\ WfnSdCall
    /\ call.wfn_deriv # None
    /\ call.ham_deriv # None
    /\ Cardinality(OccSet(call.sd)) = 3
    /\ ret = Raised("ValueError")

\* C9: integrate_sd_sd (deriv=None) with a sign that is not 1, -1 or None
\* raises ValueError, for every pair of determinants.
C9_BadSignRejected ==
    (/\ call.op = "integrate_sd_sd"
     /\ call.deriv = None
     /\ call.sign \notin {None, Some(1), Some(0 - 1)})
    => ret = Raised("ValueError")

C11_BadParamsRejected ==
    [][(/\ call'.op = "assign_params"
        /\ call' # call
        /\ call'.arg # None
        /\ ~(ndim(call'.arg) = 1 /\ size(call'.arg) = Choose2(NumOrbs)))
       => /\ ret' = [kind |-> "ValueError", val |-> <<Choose2(NumOrbs)>>]
          /\ params' = params
          /\ one_int' = one_int
          /\ two_int' = two_int
          /\ ref_one_int' = ref_one_int
          /\ ref_two_int' = ref_two_int]_vars

\* a two-dimensional array of K (K - 1) / 2 elements rejected after a rotation
C11_Witness ==
    /\ call.op = "assign_params"
    /\ call.arg # None
    /\ ndim(call.arg) = 2
    /\ size(call.arg) = Choose2(NumOrbs)
    /\ ret = [kind |-> "ValueError", val |-> <<Choose2(NumOrbs)>>]
    /\ params # zero_params
    /\ params = call.old_params
    /\ two_int # TwoIntInput

\* the sign that sign=None derives for the determinants of the last call
DerivedSign ==
    sign_excite(call.sd1, diff_orbs(call.sd1, call.sd2)[1],
                Reverse(diff_orbs(call.sd1, call.sd2)[2]))

\* C12: on the same determinants and integrals, integrate_sd_sd with sign=+1
\* and with sign=-1 return termwise negatives of each other, and the supplied
\* sign is the factor of the result: it is the supplied sign times the derived
\* sign times the result of sign=None, whatever the determinants' own sign.
C12_SignConsistency ==
    (/\ call.op = "integrate_sd_sd"
     /\ call.deriv = None
     /\ call.sign \in {Some(1), Some(0 - 1)})
    => LET opposite == integrate_sd_sd(one_int, two_int, call.sd1, call.sd2,
                                       Some(0 - call.sign[1]), None)
           derived == integrate_sd_sd(one_int, two_int, call.sd1, call.sd2,
                                      None, None)
       IN  /\ ret.kind = "return"
           /\ opposite.kind = "return"
           /\ derived.kind = "return"
           /\ ret.val = Times(0 - 1, opposite.val)
           /\ ret.val = Times(call.sign[1] * DerivedSign, derived.val)

\* a double excitation with sign=-1 where the determinants' own sign is +1,
\* on rotated integrals
C12_Witness ==
    /\ call.op = "integrate_sd_sd"
    /\ call.deriv = None
    /\ call.sign = Some(0 - 1)
    /\ Cardinality(OnlyIn(call.sd1, call.sd2)) = 2
    /\ Cardinality(OnlyIn(call.sd2, call.sd1)) = 2
    /\ DerivedSign = 1
    /\ params # zero_params
    /\ ret.kind = "return"
    /\ ret.val[2] # 0
    /\ ret.val[3] # 0

\* the result of making the last evaluation call again, now
Repeated ==
    IF call.op = "integrate_sd_sd"
    THEN integrate_sd_sd(one_int, two_int, call.sd1, call.sd2, call.sign, call.deriv)
    ELSE LET r == integrate_wfn_sd(one_int, two_int, call.wfn, call.sd,
                                   call.wfn_deriv, call.ham_deriv)
         IN  IF r.error = ""
             THEN Returned(<<r.one_electron, r.coulomb, r.exchange>>)
             ELSE Raised(r.error)

TripleFor(p, sd1, sd2) ==
    integrate_sd_sd(rotate_one_int(ref_one_int, unitary_matrix(p)),
                    rotate_two_int(ref_two_int, unitary_matrix(p)),
                    sd1, sd2, None, None).val

\* C14: assign_params reaches, between its steps, a state where the new
\* parameters are stored and the current integrals are the unrotated
\* reference; and every integrate_sd_sd call that runs while no assign_params
\* is in progress, however its steps interleave with those of the other
\* evaluating thread, has the triple it returns when it runs alone.
C14_CleanCallsSequential ==
    /\ assigning.pc = "reverted"
       => /\ one_int = ref_one_int
          /\ two_int = ref_two_int
    /\ \A t \in Threads :
          (evals[t].pc = "done" /\ evals[t].clean)
          => evals[t].val = evals[t].seq

\* a call that ran while assign_params had stored new parameters and reverted
\* the integrals: its triple is that of the reference, and neither that of the
\* parameters before the call nor that of the new parameters; the other
\* thread is in the middle of a call
C14_Witness ==
    \E t \in Threads :
        /\ evals[t].pc = "done"
        /\ ~evals[t].clean
        /\ evals[t].sd1 = 1
        /\ evals[t].sd2 = 16
        /\ assigning.pc = "reverted"
        /\ assigning.old_params = rot_params(<<1, 1>>)
        /\ params = rot_params(<<num_params, 2>>)
        /\ \E u \in Threads \ {t} : evals[u].pc = "coulomb"
        /\ evals[t].val = TripleFor(zero_params, 1, 16)
        /\ evals[t].val # TripleFor(assigning.old_params, 1, 16)
        /\ evals[t].val # TripleFor(params, 1, 16)

====
